---------------------------- MODULE Spec2Model ----------------------------
(***************************************************************************)
(* A model of smodr (src/smodr.py): the lexer, the recursive-descent       *)
(* parser, the scope chain and the tree-walking evaluator, including the   *)
(* MODIFY restart.                                                         *)
(*                                                                         *)
(* Python strings are TLA+ strings (TLC evaluates Len, SubSeq and \o on    *)
(* them).  Python's 0-based self.position is kept 0-based; the character   *)
(* at position p is SubSeq(s, p + 1, p + 1).                               *)
(***************************************************************************)
EXTENDS Integers, Sequences, FiniteSets, TLC

VARIABLES
    pc,       \* where the interpreter instance is: "idle", "tokenize",
              \* "skip_comment", "read_string", "parse", "execute", "done", "error"
    lexer,    \* the fields of the current SmodrLexer and of its _read_string frame
    error,    \* the exception that aborted the interpret call, NoError if none
    envs,     \* the live SmodrEnvironment objects; envs[1] is global_env
    stack,    \* the pending _execute / user_function / interpret activations
    val,      \* the value the last finished activation returned
    result,   \* what the outermost interpret call returned
    reference \* history: the tree the driver built the source from, NoneNode
              \* when it passed a text; no step of the interpreter reads it

vars == <<pc, lexer, error, envs, stack, val, result, reference>>

---------------------------------------------------------------------------
(* Bounds *)

\* _read_string appends '\0' forever once the input has ended; the model
\* follows that loop for this many appended characters.
MaxNulRun == 2

\* The host call stack: Python raises RecursionError when it is exhausted.
MaxDepth == 40

---------------------------------------------------------------------------
(* Characters *)

\* What _peek returns past the end of the input: the one-character string
\* '\0', written here as a recognisable token of its own.
NUL == "\\0"

DigitChars == {"0", "1", "2", "3", "4", "5", "6", "7", "8", "9"}

LowerChars == "abcdefghijklmnopqrstuvwxyz"

UpperChars == "ABCDEFGHIJKLMNOPQRSTUVWXYZ"

\* The printable ASCII characters in code order: codes 32 to 95, and 97 to
\* 126 (a TLA+ string cannot hold the grave accent, code 96).
PrintableLow == " !\"#$%&'()*+,-./0123456789:;<=>?@ABCDEFGHIJKLMNOPQRSTUVWXYZ[\\]^_"

PrintableHigh == "abcdefghijklmnopqrstuvwxyz{|}~"

CharOf(s, i) == SubSeq(s, i, i)

IndexIn(s, c) ==
    IF \E i \in 1..Len(s) : CharOf(s, i) = c
    THEN CHOOSE i \in 1..Len(s) : CharOf(s, i) = c
    ELSE 0

IsDigit(c) == c \in DigitChars

Letters ==
    {CharOf(LowerChars, i) : i \in 1..Len(LowerChars)}
        \cup {CharOf(UpperChars, i) : i \in 1..Len(UpperChars)}

IsAlpha(c) == c \in Letters

IsAlnum(c) == IsDigit(c) \/ IsAlpha(c)

\* Code point of a character (ordering of str values).
Ord(c) ==
    CASE c = "\t" -> 9
      [] c = "\n" -> 10
      [] c = "\r" -> 13
      [] c = NUL -> 0
      [] IndexIn(PrintableLow, c) > 0 -> 31 + IndexIn(PrintableLow, c)
      [] OTHER -> 96 + IndexIn(PrintableHigh, c)

UpperChar(c) ==
    LET i == IndexIn(LowerChars, c)
    IN IF i > 0 THEN CharOf(UpperChars, i) ELSE c

RECURSIVE UpperStr(_)
UpperStr(s) ==
    IF Len(s) = 0 THEN "" ELSE UpperChar(CharOf(s, 1)) \o UpperStr(Tail(s))

\* Python truthiness of a str: only the empty string is falsy.
TruthyStr(c) == c # ""

---------------------------------------------------------------------------
(* Values *)

\* A Python value the evaluator handles: int, float (an exact fraction n/d),
\* bool, str or None; ret marks the dict {'_return': True, 'value': v}.
IntV(i) == [ret |-> FALSE, k |-> "int", n |-> i, d |-> 1, s |-> ""]

BoolV(b) == [ret |-> FALSE, k |-> "bool", n |-> IF b THEN 1 ELSE 0, d |-> 1, s |-> ""]

StrV(str) == [ret |-> FALSE, k |-> "str", n |-> 0, d |-> 1, s |-> str]

NoneV == [ret |-> FALSE, k |-> "none", n |-> 0, d |-> 1, s |-> ""]

Abs(i) == IF i < 0 THEN -i ELSE i

RECURSIVE Gcd(_, _)
Gcd(a, b) == IF b = 0 THEN a ELSE Gcd(b, a % b)

FloatV(num, den) ==
    LET g == Gcd(Abs(num), Abs(den))
        sgn == IF den < 0 THEN -1 ELSE 1
    IN [ret |-> FALSE, k |-> "float", n |-> sgn * (num \div g), d |-> sgn * (den \div g), s |-> ""]

NoError == [kind |-> "", line |-> 0, column |-> 0]

Raise(kind, line, column) == [kind |-> kind, line |-> line, column |-> column]

---------------------------------------------------------------------------
(* SmodrLexer *)

Token(type, value, line, column) ==
    [type |-> type, value |-> value, line |-> line, column |-> column]

NewLexer(source) ==
    [source |-> source, position |-> 0, line |-> 1, column |-> 1, tokens |-> <<>>,
     quote |-> "", string |-> "", start_col |-> 0, start_line |-> 0]

Peek(lx, offset) ==
    LET pos == lx.position + offset
    IN IF pos < Len(lx.source) THEN CharOf(lx.source, pos + 1) ELSE NUL

Advance(lx) ==
    IF lx.position >= Len(lx.source)
    THEN lx
    ELSE LET char == CharOf(lx.source, lx.position + 1)
         IN [lx EXCEPT !.position = @ + 1,
                       !.line = IF char = "\n" THEN @ + 1 ELSE @,
                       !.column = IF char = "\n" THEN 1 ELSE @ + 1]

\* What the same _advance call returns.
AdvanceChar(lx) == IF lx.position >= Len(lx.source) THEN NUL ELSE Peek(lx, 0)

RECURSIVE AdvanceN(_, _)
AdvanceN(lx, n) == IF n = 0 THEN lx ELSE AdvanceN(Advance(lx), n - 1)

RECURSIVE SkipWhitespace(_)
SkipWhitespace(lx) ==
    IF Peek(lx, 0) \in {" ", "\t", "\n", "\r"} THEN SkipWhitespace(Advance(lx)) ELSE lx

Keywords ==
    <<"STOP", "WORDS", "WAIT", "WATCH", "LISTEN", "PAUSE",
      "CONTEMPLATE", "EAT", "DRINK", "SLEEP", "REST", "OBEY",
      "IF", "THEN", "ELSE", "WHILE", "DO", "END",
      "DEFINE", "CALL", "RETURN", "MODIFY", "RECURSE">>

\* The test _match_keyword makes for one keyword at the current position.
KeywordAt(lx, keyword) ==
    LET end_pos == lx.position + Len(keyword)
    IN /\ end_pos <= Len(lx.source)
       /\ UpperChar(Peek(lx, 0)) = CharOf(keyword, 1)   \* startswith, first character
       /\ UpperStr(SubSeq(lx.source, lx.position + 1, end_pos)) = keyword
       /\ (end_pos >= Len(lx.source) \/ ~IsAlnum(CharOf(lx.source, end_pos + 1)))

\* Index of the first keyword of the list that matches, 0 if none does.
MatchKeyword(lx) ==
    LET hits == {i \in 1..Len(Keywords) : KeywordAt(lx, Keywords[i])}
    IN IF ~IsAlpha(Peek(lx, 0)) \/ hits = {} THEN 0   \* every keyword starts with a letter
       ELSE CHOOSE i \in hits : \A j \in hits : i <= j

\* The loop of _read_number: the lexer after the last digit or '.'.
RECURSIVE ReadNumberEnd(_)
ReadNumberEnd(lx) ==
    IF IsDigit(Peek(lx, 0)) \/ Peek(lx, 0) = "." THEN ReadNumberEnd(Advance(lx)) ELSE lx

RECURSIVE CountDots(_)
CountDots(s) ==
    IF Len(s) = 0 THEN 0
    ELSE (IF CharOf(s, 1) = "." THEN 1 ELSE 0) + CountDots(Tail(s))

\* int() of a string of decimal digits.
RECURSIVE ParseInt(_)
ParseInt(s) ==
    IF Len(s) = 0 THEN 0
    ELSE 10 * ParseInt(SubSeq(s, 1, Len(s) - 1))
           + (IndexIn("0123456789", CharOf(s, Len(s))) - 1)

RECURSIVE Pow10(_)
Pow10(n) == IF n = 0 THEN 1 ELSE 10 * Pow10(n - 1)

\* float() of digits with exactly one '.', as the exact decimal fraction.
ParseFloat(s) ==
    LET dot == IndexIn(s, ".")
        whole == SubSeq(s, 1, dot - 1)
        frac == SubSeq(s, dot + 1, Len(s))
    IN FloatV(ParseInt(whole) * Pow10(Len(frac)) + ParseInt(frac), Pow10(Len(frac)))

\* The loop of _read_identifier.
RECURSIVE ReadIdentifierEnd(_)
ReadIdentifierEnd(lx) ==
    IF IsAlnum(Peek(lx, 0)) \/ Peek(lx, 0) = "_" THEN ReadIdentifierEnd(Advance(lx)) ELSE lx

EscapeMap(escape_char, quote) ==
    CASE escape_char = "n" -> "\n"
      [] escape_char = "t" -> "\t"
      [] escape_char = "r" -> "\r"
      [] OTHER -> escape_char   \* '\\' and the quote map to themselves

TwoCharOperators == {"==", "!=", "<=", ">=", ".."}

OperatorType(char) ==
    CASE char = "+" -> "PLUS"     [] char = "-" -> "MINUS"
      [] char = "*" -> "MULTIPLY" [] char = "/" -> "DIVIDE"
      [] char = "=" -> "ASSIGN"   [] char = "(" -> "LPAREN"
      [] char = ")" -> "RPAREN"   [] char = "{" -> "LBRACE"
      [] char = "}" -> "RBRACE"   [] char = "[" -> "LSQUARE"
      [] char = "]" -> "RSQUARE"  [] char = "," -> "COMMA"
      [] char = ";" -> "SEMICOLON" [] char = ":" -> "COLON"
      [] char = "?" -> "QUESTION" [] char = "!" -> "EXCLAIM"
      [] char = "." -> "DOT"      [] char = "<" -> "LT"
      [] char = ">" -> "GT"
      [] OTHER -> ""

\* Which branch of the tokenize loop the next iteration takes, after
\* _skip_whitespace.
LexBranch(lx) ==
    LET char == Peek(lx, 0)
    IN CASE lx.position >= Len(lx.source) -> "eof"
         [] char = "#" -> "comment"
         [] MatchKeyword(lx) # 0 -> "keyword"
         [] IsDigit(char) -> "number"
         [] IsAlpha(char) \/ char = "_" -> "identifier"
         [] char \in {"\"", "'"} -> "string"
         [] char \o Peek(lx, 1) \in TwoCharOperators -> "operator2"
         [] OperatorType(char) # "" -> "operator"
         [] OTHER -> "unknown"

Emit(lx, token) == [lx EXCEPT !.tokens = Append(@, token)]

---------------------------------------------------------------------------
(* SmodrParser *)

\* What a parsing method returns: the node and the parser's position after
\* it, or the SyntaxError it raised.
Parsed(node, pos) == [ok |-> TRUE, node |-> node, pos |-> pos]

ParseError(msg) == [ok |-> FALSE, node |-> msg, pos |-> 0]

\* Python's None where a node is expected.
NoneNode == [type |-> "NONE"]

PeekToken(tokens, position) ==
    IF position < Len(tokens) THEN tokens[position + 1] ELSE Token("EOF", "", 0, 0)

IsAtEnd(tokens, position) ==
    position >= Len(tokens) \/ PeekToken(tokens, position).type = "EOF"

\* The position after SmodrParser._advance.
AdvanceToken(tokens, position) ==
    IF IsAtEnd(tokens, position) THEN position ELSE position + 1

IsKeyword(tokens, position, words) ==
    /\ PeekToken(tokens, position).type = "KEYWORD"
    /\ PeekToken(tokens, position).value \in words

\* `if self._peek().type != type: raise SyntaxError(msg)` followed by
\* `self._advance()`, after the parse that gave r.
Expect(tokens, r, type, msg) ==
    IF ~r.ok THEN r
    ELSE IF PeekToken(tokens, r.pos).type # type THEN ParseError(msg)
    ELSE Parsed(r.node, AdvanceToken(tokens, r.pos))

\* The position after an optional keyword (THEN, DO, END).
SkipKeyword(tokens, position, word) ==
    IF IsKeyword(tokens, position, {word}) THEN AdvanceToken(tokens, position)
    ELSE position

RECURSIVE ParseStatement(_, _), ParseExpression(_, _), ComparisonLoop(_, _),
          ParseTerm(_, _), TermLoop(_, _), ParseFactor(_, _), FactorLoop(_, _),
          ParsePrimary(_, _), ArgumentLoop(_, _), ParseArguments(_, _),
          ParseBlock(_, _), BraceStatements(_, _), KeywordStatements(_, _)

\* The node a parsing method returns once its last child r is parsed: node
\* with r's node under key.  The SyntaxError of r passes through.
Attach(r, node, key) ==
    IF ~r.ok THEN r ELSE Parsed(node @@ (key :> r.node), r.pos)

\* The BINARY_OP node of the loops of _parse_comparison, _parse_term and
\* _parse_factor, once the right operand is parsed.
BinaryOp(op, left, right) ==
    Attach(right, [type |-> "BINARY_OP", operator |-> op, left |-> left.node], "right")

\* _parse_primary
ParsePrimary(tokens, position) ==
    LET token == PeekToken(tokens, position)
        next == AdvanceToken(tokens, position)
    IN CASE token.type = "NUMBER" ->
              Parsed([type |-> "NUMBER", value |-> token.value], next)
         [] token.type = "STRING" ->
              Parsed([type |-> "STRING", value |-> token.value], next)
         [] token.type = "IDENTIFIER" ->
              IF PeekToken(tokens, next).type = "LPAREN"
              THEN \* _parse_function_call
                   Attach(ParseArguments(tokens, AdvanceToken(tokens, next)),
                          [type |-> "FUNCTION_CALL", name |-> token.value], "arguments")
              ELSE Parsed([type |-> "IDENTIFIER", value |-> token.value], next)
         [] token.type = "LPAREN" ->
              Expect(tokens, ParseExpression(tokens, next), "RPAREN", "Expected ')'")
         [] OTHER -> ParseError("Unexpected token")

\* `arguments.append(self._parse_expression())`
AppendArgument(args, arg) ==
    IF ~arg.ok THEN arg ELSE Parsed(Append(args.node, arg.node), arg.pos)

\* The argument list of _parse_function_call and _parse_recurse, from the
\* token after '(' up to and including ')'.
ParseArguments(tokens, position) ==
    Expect(tokens,
           IF PeekToken(tokens, position).type = "RPAREN"
           THEN Parsed(<<>>, position)
           ELSE ArgumentLoop(tokens, AppendArgument(Parsed(<<>>, position),
                                                    ParseExpression(tokens, position))),
           "RPAREN", "Expected ')'")

\* `while self._peek().type == 'COMMA'` over the arguments parsed so far.
ArgumentLoop(tokens, args) ==
    IF ~args.ok THEN args
    ELSE IF PeekToken(tokens, args.pos).type = "COMMA"
    THEN ArgumentLoop(tokens,
             AppendArgument(args, ParseExpression(tokens, AdvanceToken(tokens, args.pos))))
    ELSE args

\* _parse_factor
ParseFactor(tokens, position) == FactorLoop(tokens, ParsePrimary(tokens, position))

FactorLoop(tokens, left) ==
    IF ~left.ok THEN left
    ELSE IF PeekToken(tokens, left.pos).type \in {"MULTIPLY", "DIVIDE"}
    THEN FactorLoop(tokens,
             BinaryOp(PeekToken(tokens, left.pos).value, left,
                      ParsePrimary(tokens, AdvanceToken(tokens, left.pos))))
    ELSE left

\* _parse_term
ParseTerm(tokens, position) == TermLoop(tokens, ParseFactor(tokens, position))

\* A term loop in which `* /` bind no tighter than `+ -`.
RECURSIVE TermLoopFlat(_, _)
TermLoopFlat(tokens, left) ==
    IF ~left.ok THEN left
    ELSE IF PeekToken(tokens, left.pos).type \in {"PLUS", "MINUS", "MULTIPLY", "DIVIDE"}
    THEN TermLoopFlat(tokens,
             BinaryOp(PeekToken(tokens, left.pos).value, left,
                      ParsePrimary(tokens, AdvanceToken(tokens, left.pos))))
    ELSE left

TermLoop(tokens, left) ==
    IF ~left.ok THEN left
    ELSE IF PeekToken(tokens, left.pos).type \in {"PLUS", "MINUS"}
    THEN TermLoop(tokens,
             BinaryOp(PeekToken(tokens, left.pos).value, left,
                      ParseFactor(tokens, AdvanceToken(tokens, left.pos))))
    ELSE left

\* _parse_comparison
ParseComparison(tokens, position) == ComparisonLoop(tokens, ParseTerm(tokens, position))

ComparisonLoop(tokens, left) ==
    IF ~left.ok THEN left
    ELSE IF PeekToken(tokens, left.pos).type \in {"==", "!=", "LT", "GT", "<=", ">="}
    THEN ComparisonLoop(tokens,
             BinaryOp(PeekToken(tokens, left.pos).value, left,
                      ParseTerm(tokens, AdvanceToken(tokens, left.pos))))
    ELSE left

\* _parse_expression
ParseExpression(tokens, position) == ParseComparison(tokens, position)

\* _parse_expression_statement after its first expression.
AssignmentRest(tokens, expr) ==
    IF ~expr.ok THEN expr
    ELSE IF PeekToken(tokens, expr.pos).type = "ASSIGN"
    THEN IF expr.node.type = "IDENTIFIER"
         THEN Attach(ParseExpression(tokens, AdvanceToken(tokens, expr.pos)),
                     [type |-> "ASSIGN", name |-> expr.node.value], "value")
         ELSE Parsed(expr.node, AdvanceToken(tokens, expr.pos))
    ELSE expr

\* _parse_expression_statement
ParseExpressionStatement(tokens, position) ==
    AssignmentRest(tokens, ParseExpression(tokens, position))

\* `parameters.append(self._advance().value)` after the check for a name.
AppendParameter(tokens, params) ==
    IF PeekToken(tokens, params.pos).type # "IDENTIFIER"
    THEN ParseError("Expected parameter name")
    ELSE Parsed(Append(params.node, PeekToken(tokens, params.pos).value),
                AdvanceToken(tokens, params.pos))

\* The parameter names after the first, in _parse_define.
RECURSIVE ParameterLoop(_, _)
ParameterLoop(tokens, params) ==
    IF ~params.ok THEN params
    ELSE IF PeekToken(tokens, params.pos).type = "COMMA"
    THEN ParameterLoop(tokens,
             AppendParameter(tokens, Parsed(params.node, AdvanceToken(tokens, params.pos))))
    ELSE params

\* The optional parenthesised parameter list of _parse_define.
ParseParameters(tokens, position) ==
    IF PeekToken(tokens, position).type = "LPAREN"
    THEN Expect(tokens,
                IF PeekToken(tokens, AdvanceToken(tokens, position)).type # "RPAREN"
                THEN ParameterLoop(tokens,
                         AppendParameter(tokens,
                                         Parsed(<<>>, AdvanceToken(tokens, position))))
                ELSE Parsed(<<>>, AdvanceToken(tokens, position)),
                "RPAREN", "Expected ')'")
    ELSE Parsed(<<>>, position)

\* _parse_define after the parameter list.
DefineBody(tokens, name, params) ==
    IF ~params.ok THEN params
    ELSE Attach(ParseBlock(tokens, params.pos),
                [type |-> "DEFINE", name |-> name, parameters |-> params.node], "body")

\* _parse_define, from the DEFINE keyword.
ParseDefine(tokens, position) ==
    IF PeekToken(tokens, AdvanceToken(tokens, position)).type # "IDENTIFIER"
    THEN ParseError("Expected function name")
    ELSE DefineBody(tokens, PeekToken(tokens, AdvanceToken(tokens, position)).value,
                    ParseParameters(tokens,
                        AdvanceToken(tokens, AdvanceToken(tokens, position))))

\* _parse_if after the then branch.
IfElse(tokens, condition, then_branch) ==
    IF ~then_branch.ok THEN then_branch
    ELSE IF IsKeyword(tokens, then_branch.pos, {"ELSE"})
    THEN Attach(ParseBlock(tokens, AdvanceToken(tokens, then_branch.pos)),
                [type |-> "IF", condition |-> condition,
                 then_branch |-> then_branch.node], "else_branch")
    ELSE Parsed([type |-> "IF", condition |-> condition,
                 then_branch |-> then_branch.node, else_branch |-> NoneNode],
                then_branch.pos)

\* _parse_if after the condition.
IfThen(tokens, condition) ==
    IF ~condition.ok THEN condition
    ELSE IfElse(tokens, condition.node,
                ParseBlock(tokens, SkipKeyword(tokens, condition.pos, "THEN")))

\* _parse_if, from the IF keyword.
ParseIf(tokens, position) ==
    IfThen(tokens, ParseExpression(tokens, AdvanceToken(tokens, position)))

\* _parse_while after the condition.
WhileBody(tokens, condition) ==
    IF ~condition.ok THEN condition
    ELSE Attach(ParseBlock(tokens, SkipKeyword(tokens, condition.pos, "DO")),
                [type |-> "WHILE", condition |-> condition.node], "body")

\* _parse_while, from the WHILE keyword.
ParseWhile(tokens, position) ==
    WhileBody(tokens, ParseExpression(tokens, AdvanceToken(tokens, position)))

\* _parse_modify, from the MODIFY keyword.
ParseModify(tokens, position) ==
    IF PeekToken(tokens, AdvanceToken(tokens, position)).type # "IDENTIFIER"
    THEN ParseError("Expected target for modification")
    ELSE Attach(ParseExpression(tokens,
                    AdvanceToken(tokens, AdvanceToken(tokens, position))),
                [type |-> "MODIFY",
                 target |-> PeekToken(tokens, AdvanceToken(tokens, position)).value],
                "code")

\* _parse_recurse, from the RECURSE keyword.  The node carries no 'function'
\* key.
ParseRecurse(tokens, position) ==
    Attach(IF PeekToken(tokens, AdvanceToken(tokens, position)).type = "LPAREN"
           THEN ParseArguments(tokens,
                    AdvanceToken(tokens, AdvanceToken(tokens, position)))
           ELSE Parsed(<<>>, AdvanceToken(tokens, position)),
           [type |-> "RECURSE"], "arguments")

\* _parse_statement
ParseStatement(tokens, position) ==
    LET token == PeekToken(tokens, position)
    IN IF token.type = "KEYWORD" /\ token.value = "DEFINE" THEN ParseDefine(tokens, position)
       ELSE IF token.type = "KEYWORD" /\ token.value = "IF" THEN ParseIf(tokens, position)
       ELSE IF token.type = "KEYWORD" /\ token.value = "WHILE" THEN ParseWhile(tokens, position)
       ELSE IF token.type = "KEYWORD" /\ token.value = "MODIFY" THEN ParseModify(tokens, position)
       ELSE IF token.type = "KEYWORD" /\ token.value = "RECURSE" THEN ParseRecurse(tokens, position)
       ELSE IF token.type = "KEYWORD" /\ token.value = "RETURN"
            THEN Attach(ParseExpression(tokens, AdvanceToken(tokens, position)),
                        [type |-> "RETURN"], "value")
       ELSE IF token.type = "KEYWORD" /\ token.value \in {"STOP", "PAUSE", "WAIT"}
            THEN Parsed(NoneNode, AdvanceToken(tokens, position))
       ELSE ParseExpressionStatement(tokens, position)

\* `if stmt: statements.append(stmt)`
AppendStatement(block, stmt) ==
    IF ~stmt.ok THEN stmt
    ELSE Parsed(IF stmt.node.type = "NONE" THEN block.node
                ELSE Append(block.node, stmt.node), stmt.pos)

\* The loop of _parse_block over a '{' block.
BraceStatements(tokens, block) ==
    IF ~block.ok THEN block
    ELSE IF PeekToken(tokens, block.pos).type # "RBRACE" /\ ~IsAtEnd(tokens, block.pos)
    THEN BraceStatements(tokens,
             AppendStatement(block, ParseStatement(tokens, block.pos)))
    ELSE block

\* The loop of _parse_block over a block that no '{' opens.
KeywordStatements(tokens, block) ==
    IF ~block.ok THEN block
    ELSE IF /\ ~IsAtEnd(tokens, block.pos)
            /\ ~IsKeyword(tokens, block.pos, {"END"})
            /\ ~IsKeyword(tokens, block.pos, {"ELSE", "ELIF"})
    THEN KeywordStatements(tokens,
             AppendStatement(block, ParseStatement(tokens, block.pos)))
    ELSE block

\* The BLOCK node of _parse_block, after the optional END keyword.
BlockNode(tokens, inner) ==
    IF ~inner.ok THEN inner
    ELSE Parsed([type |-> "BLOCK", statements |-> inner.node],
                SkipKeyword(tokens, inner.pos, "END"))

\* _parse_block
ParseBlock(tokens, position) ==
    IF PeekToken(tokens, position).type = "LBRACE"
    THEN BlockNode(tokens,
             Expect(tokens,
                    BraceStatements(tokens, Parsed(<<>>, AdvanceToken(tokens, position))),
                    "RBRACE", "Expected '}'"))
    ELSE BlockNode(tokens, KeywordStatements(tokens, Parsed(<<>>, position)))

\* The loop of parse.
RECURSIVE ProgramStatements(_, _)
ProgramStatements(tokens, program) ==
    IF ~program.ok THEN program
    ELSE IF ~IsAtEnd(tokens, program.pos)
    THEN ProgramStatements(tokens,
             AppendStatement(program, ParseStatement(tokens, program.pos)))
    ELSE program

\* parse
Parse(tokens) ==
    Attach(ProgramStatements(tokens, Parsed(<<>>, 0)), [type |-> "PROGRAM"], "statements")

---------------------------------------------------------------------------
(* SmodrEnvironment *)

EmptyMap == [name \in {} |-> NoneV]

\* SmodrEnvironment(parent); parent 0 is None.
NewEnvironment(parent) ==
    [parent |-> parent, variables |-> EmptyMap, functions |-> EmptyMap,
     source_code |-> StrV("")]

BuiltinNames == {"print", "input", "str", "int", "float"}

\* global_env after __init__ and _setup_builtins.
GlobalEnvironment ==
    [NewEnvironment(0) EXCEPT
       !.functions = [name \in BuiltinNames |-> [kind |-> "builtin", name |-> name]]]

\* define(name, value) on environment env.
Define(es, env, name, value) ==
    [es EXCEPT ![env].variables = (name :> value) @@ @]

\* The environment get(name) finds the variable in, 0 when it raises
\* NameError.
RECURSIVE ResolveVariable(_, _, _)
ResolveVariable(es, env, name) ==
    IF name \in DOMAIN es[env].variables THEN env
    ELSE IF es[env].parent # 0 THEN ResolveVariable(es, es[env].parent, name)
    ELSE 0

\* The environment get_function(name) finds the function in, 0 when it
\* returns None.
RECURSIVE ResolveFunction(_, _, _)
ResolveFunction(es, env, name) ==
    IF name \in DOMAIN es[env].functions THEN env
    ELSE IF es[env].parent # 0 THEN ResolveFunction(es, es[env].parent, name)
    ELSE 0

---------------------------------------------------------------------------
(* Python values under the operators of BINARY_OP and under `if` *)

IsNumber(v) == v.k \in {"int", "float", "bool"}

Truthy(v) ==
    CASE v.ret -> TRUE              \* a non-empty dict
      [] IsNumber(v) -> v.n # 0
      [] v.k = "str" -> v.s # ""
      [] OTHER -> FALSE             \* None

\* int results stay int; a float operand makes the result a float.
Numeric(a, b, num, den) ==
    IF a.k = "float" \/ b.k = "float" THEN FloatV(num, den) ELSE IntV(num \div den)

RECURSIVE Repeat(_, _)
Repeat(str, times) == IF times <= 0 THEN "" ELSE str \o Repeat(str, times - 1)

\* str < str: the first differing character decides, a proper prefix is less.
RECURSIVE StrLess(_, _)
StrLess(a, b) ==
    IF Len(b) = 0 THEN FALSE
    ELSE IF Len(a) = 0 THEN TRUE
    ELSE IF CharOf(a, 1) = CharOf(b, 1) THEN StrLess(Tail(a), Tail(b))
    ELSE Ord(CharOf(a, 1)) < Ord(CharOf(b, 1))

ValueEq(a, b) ==
    CASE IsNumber(a) /\ IsNumber(b) -> a.n * b.d = b.n * a.d
      [] a.k = "str" /\ b.k = "str" -> a.s = b.s
      [] a.k = "none" /\ b.k = "none" -> TRUE
      [] OTHER -> FALSE

ValueLess(a, b) ==
    IF a.k = "str" THEN StrLess(a.s, b.s) ELSE a.n * b.d < b.n * a.d

Ok(v) == [ok |-> TRUE, value |-> v, error |-> ""]

Fails(kind) == [ok |-> FALSE, value |-> NoneV, error |-> kind]

Comparable(a, b) == (IsNumber(a) /\ IsNumber(b)) \/ (a.k = "str" /\ b.k = "str")

\* ops[op](left, right): the value, or the exception Python raises.
ApplyOperator(op, a, b) ==
    LET nums == IsNumber(a) /\ IsNumber(b)
    IN CASE op = "+" ->
              IF nums THEN Ok(Numeric(a, b, a.n * b.d + b.n * a.d, a.d * b.d))
              ELSE IF a.k = "str" /\ b.k = "str" THEN Ok(StrV(a.s \o b.s))
              ELSE Fails("TypeError")
         [] op = "-" ->
              IF nums THEN Ok(Numeric(a, b, a.n * b.d - b.n * a.d, a.d * b.d))
              ELSE Fails("TypeError")
         [] op = "*" ->
              IF nums THEN Ok(Numeric(a, b, a.n * b.n, a.d * b.d))
              ELSE IF a.k = "str" /\ b.k \in {"int", "bool"} THEN Ok(StrV(Repeat(a.s, b.n)))
              ELSE IF b.k = "str" /\ a.k \in {"int", "bool"} THEN Ok(StrV(Repeat(b.s, a.n)))
              ELSE Fails("TypeError")
         [] op = "/" ->
              IF ~nums THEN Fails("TypeError")
              ELSE IF b.n = 0 THEN Fails("ZeroDivisionError")
              ELSE Ok(FloatV(a.n * b.d, a.d * b.n))
         [] op = "==" -> Ok(BoolV(ValueEq(a, b)))
         [] op = "!=" -> Ok(BoolV(~ValueEq(a, b)))
         [] op = "<" ->
              IF Comparable(a, b) THEN Ok(BoolV(ValueLess(a, b))) ELSE Fails("TypeError")
         [] op = ">" ->
              IF Comparable(a, b) THEN Ok(BoolV(ValueLess(b, a))) ELSE Fails("TypeError")
         [] op = "<=" ->
              IF Comparable(a, b) THEN Ok(BoolV(~ValueLess(b, a))) ELSE Fails("TypeError")
         [] op = ">=" ->
              IF Comparable(a, b) THEN Ok(BoolV(~ValueLess(a, b))) ELSE Fails("TypeError")
         [] OTHER -> Ok(NoneV)

RECURSIVE IntToStr(_)
IntToStr(i) ==
    IF i < 0 THEN "-" \o IntToStr(-i)
    ELSE IF i < 10 THEN CharOf("0123456789", i + 1)
    ELSE IntToStr(i \div 10) \o CharOf("0123456789", (i % 10) + 1)

\* The host callables of _setup_builtins, on the arguments the model covers:
\* print returns None, input finds stdin at its end, str, int and float
\* convert one int, bool, str or None argument.
CallBuiltin(name, args) ==
    CASE name = "print" -> Ok(NoneV)
      [] name = "input" -> Fails("EOFError")
      [] Len(args) # 1 -> Fails("TypeError")
      [] name = "str" /\ args[1].k = "str" -> Ok(args[1])
      [] name = "str" /\ args[1].k = "int" -> Ok(StrV(IntToStr(args[1].n)))
      [] name = "str" /\ args[1].k = "bool" ->
           Ok(StrV(IF args[1].n = 1 THEN "True" ELSE "False"))
      [] name = "str" /\ args[1].k = "none" -> Ok(StrV("None"))
      [] name = "int" /\ args[1].k \in {"int", "bool"} -> Ok(IntV(args[1].n))
      [] name = "float" /\ IsNumber(args[1]) -> Ok(FloatV(args[1].n, args[1].d))
      [] OTHER -> Fails("TypeError")

---------------------------------------------------------------------------
(* SmodrInterpreter: _execute as a machine *)

(***************************************************************************)
(* A machine m is a record of the seven variables.  m.stack holds the      *)
(* pending activations, innermost last:                                    *)
(*   [k |-> "exec", node, env]     _execute(node, env) is about to run     *)
(*   [k |-> <node type>, node, env, ...]  that branch of _execute waits    *)
(*                                  for the _execute call it made; m.val   *)
(*                                  holds what that call returned          *)
(*   [k |-> "user_function", env, func]  user function func, running in    *)
(*                                  its local_env env, waits for its body  *)
(*   [k |-> "interpret"]           interpret waits for the program         *)
(* An environment is named by its index in m.envs.  The environment of a   *)
(* call is appended when the call starts and removed when it returns: no   *)
(* function value outlives the environment that holds it, so nothing can   *)
(* reach the environment of a finished call.                               *)
(***************************************************************************)

Top(m) == m.stack[Len(m.stack)]

Pop(st) == SubSeq(st, 1, Len(st) - 1)

Exec(node, env) == [k |-> "exec", node |-> node, env |-> env]

\* The innermost activation makes the call _execute(node, env) and waits
\* for it as frame.
Call(m, frame, node, env) ==
    [m EXCEPT !.stack = Append(Append(Pop(@), frame), Exec(node, env))]

\* The innermost activation returns value to its caller.
Return(m, value) == [m EXCEPT !.stack = Pop(@), !.val = value]

\* An exception leaves every pending activation: interpret raises it.
Throw(m, kind, line, column) ==
    [m EXCEPT !.pc = "error", !.error = Raise(kind, line, column),
              !.stack = <<>>, !.envs = <<@[1]>>, !.val = NoneV]

Waiting(frame, fields) == [k |-> frame.node.type, node |-> frame.node, env |-> frame.env] @@ fields

\* PROGRAM: every statement runs; the last result is returned.
ExecuteProgram(m) ==
    LET f == Top(m)
        statements == f.node.statements
    IN IF f.k = "exec"
       THEN IF Len(statements) = 0 THEN Return(m, NoneV)
            ELSE Call(m, Waiting(f, [i |-> 1]), statements[1], f.env)
       ELSE IF f.i < Len(statements)
            THEN Call(m, [f EXCEPT !.i = @ + 1], statements[f.i + 1], f.env)
            ELSE Return(m, m.val)

\* BLOCK: as PROGRAM, and a return signal ends the block at once.
ExecuteBlock(m) ==
    LET f == Top(m)
        statements == f.node.statements
    IN IF f.k = "exec"
       THEN IF Len(statements) = 0 THEN Return(m, NoneV)
            ELSE Call(m, Waiting(f, [i |-> 1]), statements[1], f.env)
       ELSE IF m.val.ret THEN Return(m, m.val)
            ELSE IF f.i < Len(statements)
                 THEN Call(m, [f EXCEPT !.i = @ + 1], statements[f.i + 1], f.env)
                 ELSE Return(m, m.val)

\* NUMBER, STRING, and _execute(None).
ExecuteLiteral(m) ==
    LET node == Top(m).node
    IN CASE node.type = "NUMBER" -> Return(m, node.value)
         [] node.type = "STRING" -> Return(m, StrV(node.value))
         [] OTHER -> Return(m, NoneV)

\* IDENTIFIER: env.get(name).
ExecuteIdentifier(m) ==
    LET f == Top(m)
        holder == ResolveVariable(m.envs, f.env, f.node.value)
    IN IF holder = 0 THEN Throw(m, "NameError", 0, 0)
       ELSE Return(m, m.envs[holder].variables[f.node.value])

\* ASSIGN
ExecuteAssign(m) ==
    LET f == Top(m)
    IN IF f.k = "exec"
       THEN Call(m, Waiting(f, [i |-> 1]), f.node.value, f.env)
       ELSE Return([m EXCEPT !.envs = Define(@, f.env, f.node.name, m.val)], m.val)

\* BINARY_OP: left, then right, then the operator.
ExecuteBinaryOp(m) ==
    LET f == Top(m)
        applied == ApplyOperator(f.node.operator, f.left, m.val)
    IN IF f.k = "exec"
       THEN Call(m, Waiting(f, [i |-> 1, left |-> NoneV]), f.node.left, f.env)
       ELSE IF f.i = 1
            THEN Call(m, [f EXCEPT !.i = 2, !.left = m.val], f.node.right, f.env)
            ELSE IF applied.ok THEN Return(m, applied.value)
                 ELSE Throw(m, applied.error, 0, 0)

\* zip(params, args): the pairs up to the shorter length; a later pair
\* overwrites an earlier one with the same name.
RECURSIVE ZipDefine(_, _, _)
ZipDefine(params, args, n) ==
    IF n = 0 THEN EmptyMap
    ELSE (params[n] :> args[n]) @@ ZipDefine(params, args, n - 1)

Min(a, b) == IF a < b THEN a ELSE b

\* A local_env in which every parameter is bound, None standing for a
\* missing argument.
LocalEnvironmentPadded(func, args) ==
    [NewEnvironment(func.env) EXCEPT
       !.variables = ZipDefine(func.params,
                               args \o [i \in 1..Len(func.params) |-> NoneV],
                               Len(func.params))]

\* local_env of user_function, after its parameter loop.
LocalEnvironment(func, args) ==
    [NewEnvironment(func.env) EXCEPT
       !.variables = ZipDefine(func.params, args, Min(Len(func.params), Len(args)))]

\* func(*args) for the function found in environment holder, made by the
\* innermost activation: a host callable returns at once, a user function
\* creates local_env and executes its body.
Invoke(m, holder, name, args) ==
    LET func == m.envs[holder].functions[name]
        called == CallBuiltin(func.name, args)
        local_env == Len(m.envs) + 1
    IN IF func.kind = "builtin"
       THEN IF called.ok THEN Return(m, called.value) ELSE Throw(m, called.error, 0, 0)
       ELSE IF Len(m.stack) >= MaxDepth THEN Throw(m, "RecursionError", 0, 0)
       ELSE Call([m EXCEPT !.envs = Append(@, LocalEnvironment(func, args))],
                 [k |-> "user_function", env |-> local_env, func |-> func],
                 func.body, local_env)

\* The argument loop of FUNCTION_CALL and RECURSE: the machine that
\* evaluates the next argument, or done(args) when all are evaluated.
\* CallAfterArguments(m) is the call that follows.
Arguments(m) ==
    LET f == Top(m)
    IN IF f.k = "exec" THEN <<>> ELSE Append(f.args, m.val)

MoreArguments(m) == Len(Arguments(m)) < Len(Top(m).node.arguments)

NextArgument(m) ==
    LET f == Top(m)
        args == Arguments(m)
    IN Call(m, Waiting(f, [args |-> args]), f.node.arguments[Len(args) + 1], f.env)

\* FUNCTION_CALL
ExecuteFunctionCall(m) ==
    LET f == Top(m)
        holder == ResolveFunction(m.envs, f.env, f.node.name)
    IN IF MoreArguments(m) THEN NextArgument(m)
       ELSE IF holder # 0 THEN Invoke(m, holder, f.node.name, Arguments(m))
       ELSE Throw(m, "NameError", 0, 0)

\* The name RECURSE looks up: node.get('function', '__current__'), and the
\* parser builds no 'function' key.
RecurseName == "__current__"

\* RECURSE: when no function is found no branch returns, and _execute ends
\* with `return None`.
ExecuteRecurse(m) ==
    LET f == Top(m)
        holder == ResolveFunction(m.envs, f.env, RecurseName)
    IN IF MoreArguments(m) THEN NextArgument(m)
       ELSE IF holder # 0 THEN Invoke(m, holder, RecurseName, Arguments(m))
       ELSE Return(m, NoneV)

\* user_function, when its body has returned: a return signal is unwrapped.
\* local_env is the newest environment; nothing refers to it any more.
UserFunction(m) ==
    Return([m EXCEPT !.envs = Pop(@)], [m.val EXCEPT !.ret = FALSE])

\* An IF under which None counts as true.
ExecuteIfAbsentTruthy(m) ==
    IF Top(m).k = "exec"
    THEN Call(m, Waiting(Top(m), [i |-> 1]), Top(m).node.condition, Top(m).env)
    ELSE IF Truthy(m.val) \/ m.val.k = "none"
         THEN [m EXCEPT !.stack = Append(Pop(@), Exec(Top(m).node.then_branch, Top(m).env))]
         ELSE [m EXCEPT !.stack = Append(Pop(@), Exec(Top(m).node.else_branch, Top(m).env))]

\* IF: 'else_branch' is always a key of the node, None when there is no ELSE.
ExecuteIf(m) ==
    LET f == Top(m)
    IN IF f.k = "exec"
       THEN Call(m, Waiting(f, [i |-> 1]), f.node.condition, f.env)
       ELSE IF Truthy(m.val)
            THEN [m EXCEPT !.stack = Append(Pop(@), Exec(f.node.then_branch, f.env))]
            ELSE [m EXCEPT !.stack = Append(Pop(@), Exec(f.node.else_branch, f.env))]

\* A WHILE that runs its body before the first test of the condition.
ExecuteWhileBodyFirst(m) ==
    IF Top(m).k = "exec"
    THEN Call(m, Waiting(Top(m), [i |-> 2, result |-> NoneV]), Top(m).node.body, Top(m).env)
    ELSE IF Top(m).i = 1
         THEN IF Truthy(m.val)
              THEN Call(m, [Top(m) EXCEPT !.i = 2], Top(m).node.body, Top(m).env)
              ELSE Return(m, Top(m).result)
         ELSE Call(m, [Top(m) EXCEPT !.i = 1, !.result = m.val], Top(m).node.condition, Top(m).env)

\* WHILE: i = 1 waits for the condition, i = 2 for the body.
ExecuteWhile(m) ==
    LET f == Top(m)
    IN IF f.k = "exec"
       THEN Call(m, Waiting(f, [i |-> 1, result |-> NoneV]), f.node.condition, f.env)
       ELSE IF f.i = 1
            THEN IF Truthy(m.val)
                 THEN Call(m, [f EXCEPT !.i = 2], f.node.body, f.env)
                 ELSE Return(m, f.result)
            ELSE Call(m, [f EXCEPT !.i = 1, !.result = m.val], f.node.condition, f.env)

\* A DEFINE whose function value closes over global_env, whatever scope
\* executes it.
ExecuteDefineGlobal(m) ==
    Return([m EXCEPT !.envs[Top(m).env].functions =
                 (Top(m).node.name :>
                     [kind |-> "user", name |-> Top(m).node.name,
                      params |-> Top(m).node.parameters, body |-> Top(m).node.body,
                      env |-> 1]) @@ @],
           NoneV)

\* DEFINE: the function value closes over env.
ExecuteDefine(m) ==
    LET f == Top(m)
        user_function == [kind |-> "user", name |-> f.node.name,
                          params |-> f.node.parameters, body |-> f.node.body,
                          env |-> f.env]
    IN Return([m EXCEPT !.envs[f.env].functions = (f.node.name :> user_function) @@ @],
              NoneV)

\* RETURN: {'_return': True, 'value': value}.
ExecuteReturn(m) ==
    LET f == Top(m)
    IN IF f.k = "exec"
       THEN Call(m, Waiting(f, [i |-> 1]), f.node.value, f.env)
       ELSE Return(m, [m.val EXCEPT !.ret = TRUE])

\* An interpret that begins with a new global environment.
StartInterpretFresh(m, source) ==
    IF source.k # "str" THEN Throw(m, "TypeError", 0, 0)
    ELSE IF Len(m.stack) >= MaxDepth THEN Throw(m, "RecursionError", 0, 0)
    ELSE [m EXCEPT !.envs = <<[GlobalEnvironment EXCEPT !.source_code = source]>>,
                   !.lexer = NewLexer(source.s),
                   !.pc = "tokenize",
                   !.stack = Append(Pop(@), [k |-> "interpret"])]

\* interpret(source), called by the innermost activation, up to the
\* construction of the lexer.  len(source) raises TypeError in tokenize when
\* source is no str.
StartInterpret(m, source) ==
    IF source.k # "str" THEN Throw(m, "TypeError", 0, 0)
    ELSE IF Len(m.stack) >= MaxDepth THEN Throw(m, "RecursionError", 0, 0)
    ELSE [m EXCEPT !.envs[1].source_code = source,
                   !.lexer = NewLexer(source.s),
                   !.pc = "tokenize",
                   !.stack = Append(Pop(@), [k |-> "interpret"])]

\* MODIFY: only the target `source` does anything.
ExecuteModify(m) ==
    LET f == Top(m)
    IN IF f.k = "exec"
       THEN Call(m, Waiting(f, [i |-> 1]), f.node.code, f.env)
       ELSE IF f.node.target = "source"
            THEN StartInterpret([m EXCEPT !.envs[f.env].source_code = m.val], m.val)
            ELSE Return(m, NoneV)

\* interpret, when the tokens are there: parse, then _execute(ast, global_env).
ParseAndExecute(m) ==
    LET parsed == Parse(m.lexer.tokens)
    IN IF ~parsed.ok THEN Throw(m, "SyntaxError", 0, 0)
       ELSE [m EXCEPT !.pc = "execute", !.stack = Append(@, Exec(parsed.node, 1))]

\* interpret, when _execute has returned: the outermost call returns to the
\* driver, a call made by MODIFY returns to the caller of that _execute.
FinishInterpret(m) ==
    IF Len(m.stack) = 1
    THEN [m EXCEPT !.pc = "done", !.result = m.val, !.stack = <<>>]
    ELSE Return(m, m.val)

---------------------------------------------------------------------------
(* Inputs *)

\* The programs of the test suite (src/tests/test_smodr.py): arithmetic,
\* variables, conditionals, the while loop, functions, recursion, fibonacci,
\* comments, strings.
TestPrograms ==
    { "5 + 3", "20 / 4", "(2 + 3) * 4",
      "\nx = 10\ny = 20\nx + y\n",
      "\nx = 15\nresult = 0\nIF x > 10 THEN\n  result = 1\nELSE\n  result = 2\nEND\nresult\n",
      "\ncount = 0\nsum = 0\nWHILE count < 5 DO\n  sum = sum + count\n  count = count + 1\nEND\nsum\n",
      "\nDEFINE double(x)\n  RETURN x * 2\nEND\n\ndouble(5)\n",
      "\nDEFINE factorial(n)\n  IF n <= 1 THEN\n    RETURN 1\n  ELSE\n    RETURN n * factorial(n - 1)\n  END\nEND\n\nfactorial(5)\n",
      "\nDEFINE fib(n)\n  IF n <= 1 THEN\n    RETURN n\n  ELSE\n    RETURN fib(n - 1) + fib(n - 2)\n  END\nEND\n\nfib(6)\n",
      "\n# This is a comment\nx = 10  # Inline comment\nx\n",
      "\nmessage = \"Hello, World!\"\nmessage\n" }

\* MODIFY: a restart that reads, and one that writes, a name bound before it;
\* a restart from inside a call; a code value that is no text; another target;
\* a MODIFY followed by a statement at top level, in a function body and in
\* the block of an IF.
ModifyPrograms ==
    { "x = 1\nMODIFY source \"x + 1\"",
      "DEFINE f() RETURN 7 END\nMODIFY source \"f()\"",
      "MODIFY source \"1 + 1\"",
      "x = 1 DEFINE f() MODIFY source \"x = 5\" END f() x",
      "MODIFY source 5",
      "MODIFY other \"x\"",
      "MODIFY source \"1 + 1\"\n7",
      "DEFINE f() MODIFY source \"1\" RETURN 2 END f()",
      "IF 1 THEN MODIFY source \"3\" 4 END" }

\* RETURN inside WHILE, at top level, and followed by further statements.
ReturnPrograms ==
    { "DEFINE f() i = 0 WHILE i < 3 DO i = i + 1 RETURN i END END f()",
      "DEFINE f() i = 0 WHILE i < 3 DO i = i + 1 IF i == 1 THEN RETURN 100 END END RETURN 7 END f()",
      "DEFINE f() { RETURN 1 2 } f()",
      "RETURN 5",
      "RETURN 5\n7" }

\* RECURSE with and without a function named __current__.
RecursePrograms ==
    { "RECURSE",
      "RECURSE(1, 2)",
      "DEFINE f(n) RECURSE(n) END f(3)",
      "DEFINE __current__(n) RETURN n + 1 END RECURSE(4)" }

\* Inputs of the lexer: unterminated strings (one after a line break, one
\* ending in a backslash), a comment the input ends in, numbers with dots,
\* an unknown character, escapes; words that begin with the letters of a
\* keyword, and keywords in mixed case.
LexerPrograms ==
    { "x = \"abc",
      "y = 1\n'ab",
      "'a\\",
      "x # tail",
      "1.2.3",
      "1.5 + 1.",
      "a @ b",
      "'a\\nb' + \"c\\\"d\"",
      "end_x = 1",
      "if_flag = 2 if_flag",
      "double = 4 double",
      "do_it",
      "IFx = 1 IFx",
      "done2 = 1",
      "If 1 Then 2 End" }

\* Calls with fewer and with more arguments than parameters.
ArityPrograms ==
    { "DEFINE f(a, b) RETURN a END f(1)",
      "DEFINE f(a, b) RETURN b END f(1)",
      "b = 9 DEFINE f(a, b) RETURN b END f(1)",
      "DEFINE f(a) RETURN a END f(1, 2)" }

\* Scopes: a write inside a call, a function defined inside a call, a free
\* variable bound in the caller and in the defining scope, a free variable
\* bound after DEFINE, unbounded recursion, a host callable, an undefined
\* function.
ScopePrograms ==
    { "x = 1 DEFINE f() x = 2 RETURN x END f() + x",
      "DEFINE f(a) DEFINE g() RETURN a END RETURN g() END f(5)",
      "x = 1 DEFINE g() RETURN x END DEFINE f() x = 2 RETURN g() END f()",
      "DEFINE g() RETURN x END x = 7 g()",
      "DEFINE f() RETURN f() END f()",
      "print(1)",
      "nofunc(1)" }

\* IF over falsy and truthy condition values of every kind, with and without
\* ELSE; WHILE that never runs, that counts down, with a braced body and inside
\* a function; blocks whose closing END or } is missing.
ControlPrograms ==
    { "IF 0 THEN 1 ELSE 2 END",
      "IF \"\" THEN 1 ELSE 2 END",
      "IF \"0\" THEN 1 ELSE 2 END",
      "IF 1 == 2 THEN 1 END",
      "IF 0.0 { 1 } ELSE { 2 }",
      "DEFINE f() END IF f() THEN 1 ELSE 2 END",
      "IF 0 - 3 THEN 1 END",
      "WHILE 0 DO 1 END",
      "n = 3 WHILE n DO n = n - 1 END",
      "i = 0 WHILE i < 2 { i = i + 1 } i",
      "DEFINE f(n) s = 0 WHILE n > 0 DO s = s + n n = n - 1 END RETURN s END f(3)",
      "IF 1 THEN 2",
      "DEFINE f() RETURN 1",
      "WHILE 0 DO 1",
      "IF 1 { 2",
      "DEFINE f() { RETURN 1",
      "IF 0 THEN 1 ELSE 2" }

Programs ==
    TestPrograms \cup ModifyPrograms \cup ReturnPrograms \cup RecursePrograms \cup LexerPrograms \cup
    ArityPrograms \cup ScopePrograms \cup ControlPrograms

---------------------------------------------------------------------------
(* Actions *)

\* The seven variables of the interpreter as one machine, and the step to
\* machine m.
Machine ==
    [pc |-> pc, lexer |-> lexer, error |-> error, envs |-> envs, stack |-> stack,
     val |-> val, result |-> result]

Becomes(m) ==
    /\ pc' = m.pc
    /\ lexer' = m.lexer
    /\ error' = m.error
    /\ envs' = m.envs
    /\ stack' = m.stack
    /\ val' = m.val
    /\ result' = m.result

\* A step of the interpret call under way.
Step(m) == Becomes(m) /\ UNCHANGED reference

\* A fresh SmodrInterpreter, before any interpret call.
Init ==
    /\ pc = "idle"
    /\ lexer = NewLexer("")
    /\ error = NoError
    /\ envs = <<GlobalEnvironment>>
    /\ stack = <<>>
    /\ val = NoneV
    /\ result = NoneV
    /\ reference = NoneNode

\* The driver runs one source: interpreter.interpret(source).
Interpret ==
    /\ pc = "idle"
    /\ \E source \in Programs :
          Becomes(StartInterpret([Machine EXCEPT !.stack = <<[k |-> "driver"]>>],
                                 StrV(source)))
    /\ reference' = NoneNode

\* tokenize: the input has ended; append EOF and return the tokens.
LexEOF ==
    /\ pc = "tokenize"
    /\ LET lx == SkipWhitespace(lexer)
       IN /\ LexBranch(lx) = "eof"
          /\ lexer' = Emit(lx, Token("EOF", "", lx.line, lx.column))
    /\ pc' = "parse"
    /\ UNCHANGED <<error, envs, stack, val, result, reference>>

\* tokenize: a '#' starts a comment; _skip_comment begins.
LexComment ==
    /\ pc = "tokenize"
    /\ LET lx == SkipWhitespace(lexer)
       IN /\ LexBranch(lx) = "comment"
          /\ lexer' = lx
    /\ pc' = "skip_comment"
    /\ UNCHANGED <<error, envs, stack, val, result, reference>>

\* One test of the loop of _skip_comment, and its body when the test holds:
\* `while self._peek() and self._peek() != '\n': self._advance()`.  Past the
\* end of the input _peek is '\0', the test holds and _advance moves nothing.
SkipComment ==
    /\ pc = "skip_comment"
    /\ IF TruthyStr(Peek(lexer, 0)) /\ Peek(lexer, 0) # "\n"
       THEN /\ lexer' = Advance(lexer)
            /\ pc' = pc
       ELSE /\ lexer' = lexer
            /\ pc' = "tokenize"
    /\ UNCHANGED <<error, envs, stack, val, result, reference>>

\* tokenize: _match_keyword found a keyword.
LexKeyword ==
    /\ pc = "tokenize"
    /\ LET lx == SkipWhitespace(lexer)
           keyword == Keywords[MatchKeyword(lx)]
       IN /\ LexBranch(lx) = "keyword"
          /\ lexer' = AdvanceN(Emit(lx, Token("KEYWORD", keyword, lx.line, lx.column)),
                               Len(keyword))
    /\ UNCHANGED <<pc, error, envs, stack, val, result, reference>>

\* _read_number on lexer lx: the machine after it.  float() raises
\* ValueError for a text with more than one '.'.
ReadNumber(m, lx) ==
    LET after == ReadNumberEnd(lx)
        num_str == SubSeq(lx.source, lx.position + 1, after.position)
        dots == CountDots(num_str)
        value == IF dots = 1 THEN ParseFloat(num_str) ELSE IntV(ParseInt(num_str))
    IN IF dots > 1
       THEN Throw([m EXCEPT !.lexer = after], "ValueError", 0, 0)
       ELSE [m EXCEPT !.lexer = Emit(after, Token("NUMBER", value, after.line, lx.column))]

\* tokenize: a digit starts a number.
LexNumber ==
    /\ pc = "tokenize"
    /\ LexBranch(SkipWhitespace(lexer)) = "number"
    /\ Step(ReadNumber(Machine, SkipWhitespace(lexer)))

\* tokenize: _read_identifier.
LexIdentifier ==
    /\ pc = "tokenize"
    /\ LET lx == SkipWhitespace(lexer)
           after == ReadIdentifierEnd(lx)
           ident == SubSeq(lx.source, lx.position + 1, after.position)
       IN /\ LexBranch(lx) = "identifier"
          /\ lexer' = Emit(after, Token("IDENTIFIER", ident, after.line, lx.column))
    /\ UNCHANGED <<pc, error, envs, stack, val, result, reference>>

\* tokenize: a quote starts a string; _read_string consumes the quote.
\* start_line is the line of that quote: _read_string does not keep it (it
\* keeps start_col), the model does, to name the line a string began on.
LexString ==
    /\ pc = "tokenize"
    /\ LET lx == SkipWhitespace(lexer)
       IN /\ LexBranch(lx) = "string"
          /\ lexer' = [Advance(lx) EXCEPT !.start_col = lx.column,
                                          !.start_line = lx.line,
                                          !.quote = Peek(lx, 0),
                                          !.string = ""]
    /\ pc' = "read_string"
    /\ UNCHANGED <<error, envs, stack, val, result, reference>>

RECURSIVE NulRun(_)
NulRun(n) == IF n = 0 THEN "" ELSE NUL \o NulRun(n - 1)

\* The string being read ends with the longest run of '\0' the model follows.
AtNulBound(lx) ==
    LET run == NulRun(MaxNulRun)
    IN /\ Len(lx.string) >= Len(run)
       /\ SubSeq(lx.string, Len(lx.string) - Len(run) + 1, Len(lx.string)) = run

\* One test of the loop of _read_string and what follows it:
\* `while self._peek() and self._peek() != quote` appends one character (two
\* are consumed for an escape); when the loop ends, `if not self._peek()`
\* raises and otherwise the closing quote is consumed and STRING emitted.
\* Past the end of the input _peek and _advance give '\0', which is truthy.
ReadStringStep(m) ==
    LET lx == m.lexer
        escaped == Advance(lx)
        closed == Advance(lx)
    IN IF TruthyStr(Peek(lx, 0)) /\ Peek(lx, 0) # lx.quote
       THEN IF Peek(lx, 0) = "\\"
            THEN [m EXCEPT !.lexer = [Advance(escaped) EXCEPT
                     !.string = @ \o EscapeMap(AdvanceChar(escaped), lx.quote)]]
            ELSE [m EXCEPT !.lexer = [Advance(lx) EXCEPT !.string = @ \o AdvanceChar(lx)]]
       ELSE IF ~TruthyStr(Peek(lx, 0))
            THEN Throw(m, "SyntaxError", lx.line, 0)
            ELSE [m EXCEPT !.pc = "tokenize",
                           !.lexer = Emit(closed,
                               Token("STRING", lx.string, closed.line, lx.start_col))]

ReadString ==
    /\ pc = "read_string"
    /\ ~AtNulBound(lexer)
    /\ Step(ReadStringStep(Machine))

\* tokenize: _read_operator, two-character operators first.
LexOperator ==
    /\ pc = "tokenize"
    /\ LET lx == SkipWhitespace(lexer)
           char == Peek(lx, 0)
           two_char == char \o Peek(lx, 1)
       IN /\ LexBranch(lx) \in {"operator2", "operator"}
          /\ lexer' = IF LexBranch(lx) = "operator2"
                      THEN AdvanceN(Emit(lx, Token(two_char, two_char, lx.line, lx.column)), 2)
                      ELSE Advance(Emit(lx, Token(OperatorType(char), char, lx.line, lx.column)))
    /\ UNCHANGED <<pc, error, envs, stack, val, result, reference>>

\* tokenize: no rule matches the character.
LexUnknown ==
    /\ pc = "tokenize"
    /\ LET lx == SkipWhitespace(lexer)
       IN /\ LexBranch(lx) = "unknown"
          /\ Step(Throw([Machine EXCEPT !.lexer = lx], "SyntaxError", lx.line, lx.column))

\* interpret: parser.parse(), then the call of _execute on the program.
ParseTokens ==
    /\ pc = "parse"
    /\ Step(ParseAndExecute(Machine))

\* Whether the innermost activation is the branch of _execute for a node of
\* one of these types.
Executing(types) ==
    /\ pc = "execute"
    /\ \/ stack[Len(stack)].k \in types
       \/ stack[Len(stack)].k = "exec" /\ stack[Len(stack)].node.type \in types

Program == Executing({"PROGRAM"}) /\ Step(ExecuteProgram(Machine))

Block == Executing({"BLOCK"}) /\ Step(ExecuteBlock(Machine))

Literal == Executing({"NUMBER", "STRING", "NONE"}) /\ Step(ExecuteLiteral(Machine))

Identifier == Executing({"IDENTIFIER"}) /\ Step(ExecuteIdentifier(Machine))

Assign == Executing({"ASSIGN"}) /\ Step(ExecuteAssign(Machine))

BinaryOperation == Executing({"BINARY_OP"}) /\ Step(ExecuteBinaryOp(Machine))

FunctionCall == Executing({"FUNCTION_CALL"}) /\ Step(ExecuteFunctionCall(Machine))

FunctionReturn == Executing({"user_function"}) /\ Step(UserFunction(Machine))

If == Executing({"IF"}) /\ Step(ExecuteIf(Machine))

While == Executing({"WHILE"}) /\ Step(ExecuteWhile(Machine))

DefineFunction == Executing({"DEFINE"}) /\ Step(ExecuteDefine(Machine))

ReturnStatement == Executing({"RETURN"}) /\ Step(ExecuteReturn(Machine))

Recurse == Executing({"RECURSE"}) /\ Step(ExecuteRecurse(Machine))

Modify == Executing({"MODIFY"}) /\ Step(ExecuteModify(Machine))

InterpretReturn == Executing({"interpret"}) /\ Step(FinishInterpret(Machine))

Next ==
    \/ Interpret
    \/ LexEOF
    \/ LexComment
    \/ SkipComment
    \/ LexKeyword
    \/ LexNumber
    \/ LexIdentifier
    \/ LexString
    \/ ReadString
    \/ LexOperator
    \/ LexUnknown
    \/ ParseTokens
    \/ Program
    \/ Block
    \/ Literal
    \/ Identifier
    \/ Assign
    \/ BinaryOperation
    \/ FunctionCall
    \/ FunctionReturn
    \/ If
    \/ While
    \/ DefineFunction
    \/ ReturnStatement
    \/ Recurse
    \/ Modify
    \/ InterpretReturn

Spec == Init /\ [][Next]_vars

---------------------------------------------------------------------------
(* Expression runs: the driver builds the source from a reference tree *)

\* The number of binary operators in a reference tree.
MaxOps == 2

\* The operator lexemes of _read_operator that _parse_comparison, _parse_term
\* and _parse_factor accept.
Operators == {"+", "-", "*", "/", "==", "!=", "<", ">", "<=", ">="}

\* The integer literal at the i-th leaf, left to right.
LeafValues == <<10, 4, 3, 2, 7>>

Leaf(i) ==
    [type |-> "NUMBER", value |-> IntV(LeafValues[((i - 1) % Len(LeafValues)) + 1])]

\* The trees with ops operators whose leaves are numbered from first.
RECURSIVE Trees(_, _)
Trees(ops, first) ==
    IF ops = 0 THEN {Leaf(first)}
    ELSE UNION { { [type |-> "BINARY_OP", operator |-> op, left |-> l, right |-> r] :
                     op \in Operators,
                     l \in Trees(k, first),
                     r \in Trees(ops - 1 - k, first + k + 1) } :
                 k \in 0..(ops - 1) }

ExprTrees == UNION { Trees(ops, 1) : ops \in 0..MaxOps }

\* How tightly the root of t binds: a literal, `* /`, `+ -`, a comparison.
Binding(t) ==
    CASE t.type = "NUMBER" -> 4
      [] t.operator \in {"*", "/"} -> 3
      [] t.operator \in {"+", "-"} -> 2
      [] OTHER -> 1

\* The text of t: an operand is parenthesised when it binds less tightly
\* than its place needs, and every compound operand is when full holds.
RECURSIVE Unparse(_, _), Operand(_, _, _)
Unparse(t, full) ==
    IF t.type = "NUMBER" THEN IntToStr(t.value.n)
    ELSE Operand(t.left, Binding(t), full) \o " " \o t.operator \o " "
         \o Operand(t.right, Binding(t) + 1, full)

Operand(t, binding, full) ==
    IF Binding(t) < binding \/ (full /\ t.type = "BINARY_OP")
    THEN "(" \o Unparse(t, full) \o ")"
    ELSE Unparse(t, full)

\* The operator of a tree on the outcomes of its operands, left first.
RefApply(op, left, right) ==
    IF ~left.ok THEN left
    ELSE IF ~right.ok THEN right
    ELSE ApplyOperator(op, left.value, right.value)

\* The value of the reference grouping t, or the exception it raises.
RECURSIVE RefEval(_)
RefEval(t) ==
    IF t.type = "NUMBER" THEN Ok(t.value)
    ELSE RefApply(t.operator, RefEval(t.left), RefEval(t.right))

\* The driver runs the text of a reference tree.
InterpretExpr ==
    /\ pc = "idle"
    /\ \E t \in ExprTrees, full \in BOOLEAN :
          /\ Becomes(StartInterpret([Machine EXCEPT !.stack = <<[k |-> "driver"]>>],
                                    StrV(Unparse(t, full))))
          /\ reference' = t

NextExpr ==
    \/ InterpretExpr
    \/ LexEOF
    \/ LexNumber
    \/ LexOperator
    \/ ParseTokens
    \/ Program
    \/ Literal
    \/ BinaryOperation
    \/ InterpretReturn

SpecExpr == Init /\ [][NextExpr]_vars

---------------------------------------------------------------------------
(* Properties: MODIFY, RETURN, RECURSE *)

\* The interpret call under way was made by MODIFY, and its tokens are about
\* to be parsed: nothing of the new program has run yet.
RestartBegins == pc = "parse" /\ Len(stack) > 1

\* C1: executing MODIFY with target `source` discards every variable and
\* function binding made before it: the program text it restarts on begins
\* in a global scope that holds only the builtins, so a name bound only
\* before the MODIFY is unresolved in it.
C1_ModifyDiscardsBindings ==
    RestartBegins =>
        /\ DOMAIN envs[1].variables = {}
        /\ DOMAIN envs[1].functions = BuiltinNames

\* The innermost activation belongs to the body of a user function: a
\* user_function activation is pending and no interpret call was made since.
InFunctionBody ==
    \E i \in 1..Len(stack) :
        /\ stack[i].k = "user_function"
        /\ \A j \in (i + 1)..Len(stack) : stack[j].k # "interpret"

\* C2: when a RETURN statement has executed inside a user function's body
\* (a return signal is the value just returned), no further statement or
\* loop iteration of that call is executed: every step up to the call's
\* boundary only ends a pending activation, and the boundary yields the
\* plain value.
C2_ReturnEndsTheCall ==
    [][(pc = "execute" /\ val.ret /\ InFunctionBody) =>
          /\ pc' = "execute"
          /\ stack' = Pop(stack)
          /\ val'.ret = (Top(Machine).k # "user_function")
          /\ [val' EXCEPT !.ret = FALSE] = [val EXCEPT !.ret = FALSE]]_vars

\* RECURSE has evaluated its arguments and no scope holds a function under
\* the default name.
RecurseUnresolved ==
    /\ Executing({"RECURSE"})
    /\ ~MoreArguments(Machine)
    /\ \A e \in 1..Len(envs) : RecurseName \notin DOMAIN envs[e].functions

\* C3: executing RECURSE when no function is defined under the default name
\* fails with an undefined-function error; it never completes normally.
C3_RecurseWithoutTargetFails ==
    [][RecurseUnresolved => (pc' = "error" /\ error'.kind = "NameError")]_vars

---------------------------------------------------------------------------
(* Properties: the lexer *)

\* _read_string stands at the end of the input: the string's opening quote
\* has no matching closing quote.
UnterminatedString == pc = "read_string" /\ lexer.position >= Len(lexer.source)

\* C4: tokenizing a source in which a string's opening quote has no closing
\* quote before the end of input fails with a SyntaxError that reports the
\* line on which the string began.
C4_UnterminatedStringFails ==
    [][UnterminatedString =>
          /\ pc' = "error"
          /\ error'.kind = "SyntaxError"
          /\ error'.line = lexer.start_line]_vars

\* The EOF tokens among tokens.
EOFTokens(tokens) == {i \in 1..Len(tokens) : tokens[i].type = "EOF"}

\* The loop of _skip_comment cannot end: its test holds and its body moves
\* nothing, so the next test finds the same lexer.
SkipCommentSpins ==
    /\ pc = "skip_comment"
    /\ TruthyStr(Peek(lexer, 0)) /\ Peek(lexer, 0) # "\n"
    /\ Advance(lexer) = lexer

\* The loop of _read_string runs past the end of the input: it has appended
\* what _advance returns there.
ReadStringOverruns ==
    /\ pc = "read_string"
    /\ lexer.position >= Len(lexer.source)
    /\ Len(lexer.string) > 0
    /\ SubSeq(lexer.string, Len(lexer.string), Len(lexer.string)) = NUL

\* C5: tokenize is total: it halts for every source, either returning tokens
\* whose last and only EOF token is at the end, or failing with a
\* SyntaxError; it never loops forever and never fails with another kind of
\* error.
C5_TokenizeTotal ==
    /\ pc = "parse" => EOFTokens(lexer.tokens) = {Len(lexer.tokens)}
    /\ (pc = "error" /\ EOFTokens(lexer.tokens) = {}) => error.kind = "SyntaxError"
    /\ ~SkipCommentSpins
    /\ ~ReadStringOverruns

---------------------------------------------------------------------------
(* Properties: calls and scopes *)

\* The function the innermost activation is about to call: FUNCTION_CALL or
\* RECURSE with every argument evaluated.
CalleeName ==
    IF Top(Machine).node.type = "RECURSE" THEN RecurseName ELSE Top(Machine).node.name

CalleeHolder == ResolveFunction(envs, Top(Machine).env, CalleeName)

\* The innermost activation calls a user function, and the host stack has
\* room for the call.
CallsUserFunction ==
    /\ Executing({"FUNCTION_CALL", "RECURSE"})
    /\ ~MoreArguments(Machine)
    /\ CalleeHolder # 0
    /\ envs[CalleeHolder].functions[CalleeName].kind = "user"
    /\ Len(stack) < MaxDepth

\* The call binds the leading parameters to the arguments, position by
\* position up to the shorter length, in a scope of its own, and raises
\* nothing: a missing argument leaves its parameter unbound there, an
\* argument beyond the parameters is dropped.
PairsShortest ==
    CallsUserFunction =>
        LET func == envs[CalleeHolder].functions[CalleeName]
            args == Arguments(Machine)
            n == Min(Len(func.params), Len(args))
        IN /\ pc' = "execute"
           /\ Len(envs') = Len(envs) + 1
           /\ DOMAIN envs'[Len(envs')].variables = {func.params[i] : i \in 1..n}
           /\ \A i \in 1..n :
                 (\A j \in (i + 1)..n : func.params[j] # func.params[i])
                     => envs'[Len(envs')].variables[func.params[i]] = args[i]

\* The parameters of the user function whose body runs in scope env.
ParametersOf(env) ==
    UNION { {stack[i].func.params[j] : j \in 1..Len(stack[i].func.params)} :
            i \in {i \in 1..Len(stack) :
                     stack[i].k = "user_function" /\ stack[i].env = env} }

\* The innermost activation is about to read, in the body of a user
\* function, a parameter that the call left unbound.
UnboundParameterRead ==
    /\ pc = "execute"
    /\ Top(Machine).k = "exec"
    /\ Top(Machine).node.type = "IDENTIFIER"
    /\ Top(Machine).node.value \in ParametersOf(Top(Machine).env)
    /\ Top(Machine).node.value \notin DOMAIN envs[Top(Machine).env].variables

\* The scope, among those enclosing the callee's, that binds the name being
\* read; 0 if none does.
EnclosingBinding ==
    ResolveVariable(envs, envs[Top(Machine).env].parent, Top(Machine).node.value)

\* C6 (as the code has it): a call pairs parameters and arguments up to the
\* shorter length without error; a reference to a parameter left unbound
\* yields the binding of that name in the nearest enclosing scope of the
\* function's definition, and fails with an unresolved-name error only when
\* no enclosing scope binds it.
C6_ShortestPairing ==
    [][/\ PairsShortest
       /\ UnboundParameterRead =>
             IF EnclosingBinding = 0
             THEN pc' = "error" /\ error'.kind = "NameError"
             ELSE /\ pc' = "execute"
                  /\ val' = envs[EnclosingBinding].variables[Top(Machine).node.value]]_vars

\* C6 as stated: a call pairs parameters and arguments up to the shorter
\* length without error, and any reference to a parameter left unbound fails
\* with an unresolved-name error, whatever the enclosing scopes contain.
C6_UnboundParameterAlwaysFails ==
    [][/\ PairsShortest
       /\ UnboundParameterRead => (pc' = "error" /\ error'.kind = "NameError")]_vars

\* A body has read a parameter its call left unbound and got the binding of
\* an enclosing scope: RETURN holds that value, the call's scope still lacks
\* the name.
C6_Witness ==
    /\ pc = "execute"
    /\ Top(Machine).k = "RETURN"
    /\ Top(Machine).node.value.type = "IDENTIFIER"
    /\ Top(Machine).node.value.value \in ParametersOf(Top(Machine).env)
    /\ Top(Machine).node.value.value \notin DOMAIN envs[Top(Machine).env].variables
    /\ Top(Machine).node.value.value \in DOMAIN envs[1].variables
    /\ val = envs[1].variables[Top(Machine).node.value.value]

\* C7: every write is local: no step changes the variables of a scope other
\* than the innermost one, so when a call returns the caller's scope and
\* every enclosing scope hold the variables they held before it.
C7_WritesAreLocal ==
    [][\A e \in 1..Len(envs) :
          (e < Len(envs) /\ e <= Len(envs')) => envs'[e].variables = envs[e].variables]_vars

\* C8: the value a top-level interpret call returns is a number, a string, a
\* boolean or None, never a return signal.
C8_TerminalValuePrimitive ==
    pc = "done" => (~result.ret /\ result.k \in {"int", "float", "bool", "str", "none"})

---------------------------------------------------------------------------
(* Properties: expressions *)

\* C9: for an expression of integer literals, parentheses and the binary
\* operators, the parser builds the reference tree (`* /` tighter than
\* `+ -`, these tighter than comparisons, each level left-associative,
\* parentheses overriding), and the run ends with the value, or the
\* exception, of that grouping.
C9_PrecedenceAndGrouping ==
    reference.type # "NONE" =>
        /\ (pc = "execute" /\ Len(stack) >= 2) =>
               stack[2].node = [type |-> "PROGRAM", statements |-> <<reference>>]
        /\ pc = "done" => (RefEval(reference).ok /\ result = RefEval(reference).value)
        /\ pc = "error" =>
               (~RefEval(reference).ok /\ error.kind = RefEval(reference).error)

\* (10 + 4) * 3 has run: the parentheses overrode the precedence of `*`.
C9_Witness ==
    /\ pc = "done"
    /\ reference.type = "BINARY_OP"
    /\ reference.operator = "*"
    /\ reference.left.type = "BINARY_OP"
    /\ reference.left.operator = "+"
    /\ result = IntV(42)

---------------------------------------------------------------------------
(* Properties: invocations *)

\* The scope the innermost activation runs in.
CurrentEnv ==
    IF pc = "execute" /\ Top(Machine).k # "interpret" THEN Top(Machine).env ELSE 1

\* DEFINE records, in the function it binds, the scope that executes it.
DefineClosesOverScope ==
    Executing({"DEFINE"}) =>
        envs'[Top(Machine).env].functions[Top(Machine).node.name].env = Top(Machine).env

\* A call of a user function creates a scope that binds no function, whose
\* parent is the scope recorded by DEFINE, and runs the body in it; the
\* scopes there were stay as they are.
InvokesInFreshScope ==
    CallsUserFunction =>
        LET func == envs[CalleeHolder].functions[CalleeName]
        IN /\ Len(envs') = Len(envs) + 1
           /\ SubSeq(envs', 1, Len(envs)) = envs
           /\ envs'[Len(envs')].parent = func.env
           /\ DOMAIN envs'[Len(envs')].functions = {}
           /\ stack'[Len(stack')] = Exec(func.body, Len(envs'))

\* No step changes the scope of a pending invocation other than the one the
\* innermost activation runs in.
OtherInvocationsUntouched ==
    \A e \in 2..Len(envs) : (e <= Len(envs') /\ e # CurrentEnv) => envs'[e] = envs[e]

\* A read of a name takes the binding of the nearest scope on the chain of
\* parents, as it is now.
ReadsAlongDefinitionChain ==
    (Executing({"IDENTIFIER"})
        /\ ResolveVariable(envs, Top(Machine).env, Top(Machine).node.value) # 0) =>
        val' = envs[ResolveVariable(envs, Top(Machine).env, Top(Machine).node.value)]
                   .variables[Top(Machine).node.value]

\* Self-calls by name give what the test suite expects: factorial(5) is 120
\* and fib(6) is 8.
RecursionResults ==
    pc' = "done" =>
        /\ "factorial" \in DOMAIN envs'[1].functions => result' = IntV(120)
        /\ "fib" \in DOMAIN envs'[1].functions => result' = IntV(8)

\* C10: every invocation of a user function runs its body in a fresh scope
\* whose parent is the scope in which its DEFINE executed; no other
\* invocation changes its bindings; reads of free variables take the
\* defining chain's bindings as they are at call time.
C10_FreshScopePerInvocation ==
    [][/\ DefineClosesOverScope
       /\ InvokesInFreshScope
       /\ OtherInvocationsUntouched
       /\ ReadsAlongDefinitionChain
       /\ RecursionResults]_vars

\* factorial(5): the nested call factorial(4) has returned 24 to the
\* invocation whose n is still 5.
C10_Witness ==
    /\ pc = "execute"
    /\ Len(envs) = 2
    /\ Top(Machine).k = "BINARY_OP"
    /\ Top(Machine).i = 2
    /\ Top(Machine).node.right.type = "FUNCTION_CALL"
    /\ "n" \in DOMAIN envs[2].variables
    /\ envs[2].variables["n"] = IntV(5)
    /\ val = IntV(24)

---------------------------------------------------------------------------
(* IF *)

\* The branch of _execute for an IF node starts, and decides once the
\* condition has returned.
IfStarts == pc = "execute" /\ Top(Machine).k = "exec" /\ Top(Machine).node.type = "IF"

IfDecides == pc = "execute" /\ Top(Machine).k = "IF"

ZeroEmptyOrFalse(v) ==
    \/ v.k \in {"int", "float", "bool"} /\ v.n = 0
    \/ v.k = "str" /\ v.s = ""

\* The condition is evaluated, once, in the scope of the IF.
IfEvaluatesCondition ==
    IfStarts =>
        /\ Len(stack') = Len(stack) + 1
        /\ stack'[Len(stack)].k = "IF"
        /\ stack'[Len(stack')] = Exec(Top(Machine).node.condition, Top(Machine).env)
        /\ envs' = envs

\* The IF becomes the execution of the branch it selects: it runs no other
\* branch and never looks at the condition again.
IfSelects(falsy) ==
    IfDecides =>
        /\ pc' = "execute"
        /\ envs' = envs
        /\ stack' = Append(Pop(stack),
                           Exec(IF falsy THEN Top(Machine).node.else_branch
                                         ELSE Top(Machine).node.then_branch,
                                Top(Machine).env))

\* The missing else-block: no value, no error.
NoElseYieldsNothing ==
    Executing({"NONE"}) => pc' = "execute" /\ val' = NoneV /\ stack' = Pop(stack)

\* C11: IF evaluates its condition once and executes exactly one branch, the
\* then-block when the condition is truthy and the else-block (nothing, with
\* no value and no error, when there is none) when it is falsy; the falsy
\* values are numeric zero, the empty string, boolean false and None.
C11_IfSelectsOneBranch ==
    [][/\ IfEvaluatesCondition
       /\ IfSelects(val.k = "none" \/ ZeroEmptyOrFalse(val))
       /\ NoElseYieldsNothing]_vars

\* C11 as stated: numeric zero, the empty string and boolean false are the
\* only falsy values; every other condition value selects the then-block.
C11_OnlyZeroEmptyFalseAreFalsy ==
    [][IfSelects(ZeroEmptyOrFalse(val))]_vars

\* The call f() of a function with an empty body gave None as the condition
\* and the IF ran its else-block.
C11_Witness ==
    /\ pc = "done"
    /\ envs[1].source_code = StrV("DEFINE f() END IF f() THEN 1 ELSE 2 END")
    /\ result = IntV(2)

---------------------------------------------------------------------------
(* WHILE *)

WhileStarts == pc = "execute" /\ Top(Machine).k = "exec" /\ Top(Machine).node.type = "WHILE"

\* The condition, or the body, has returned to the WHILE.
WhileTested == pc = "execute" /\ Top(Machine).k = "WHILE" /\ Top(Machine).i = 1

WhileIterated == pc = "execute" /\ Top(Machine).k = "WHILE" /\ Top(Machine).i = 2

\* The loop, waiting for the _execute call it makes on node.
WhileCalls(node, last) ==
    /\ pc' = "execute"
    /\ envs' = envs
    /\ Len(stack') = Len(stack) + 1
    /\ SubSeq(stack', 1, Len(stack) - 1) = Pop(stack)
    /\ stack'[Len(stack)].k = "WHILE"
    /\ stack'[Len(stack)].node = Top(Machine).node
    /\ stack'[Len(stack)].env = Top(Machine).env
    /\ stack'[Len(stack)].result = last
    /\ stack'[Len(stack')] = Exec(node, Top(Machine).env)

\* The condition comes first, and again after every execution of the body,
\* in the scope the body ran in; the body runs after each truthy condition;
\* the first falsy condition ends the loop with the value of the last
\* execution of the body, None if there was none.
WhileSteps ==
    /\ WhileStarts => WhileCalls(Top(Machine).node.condition, NoneV)
    /\ (WhileTested /\ ~(val.k = "none" \/ ZeroEmptyOrFalse(val))) =>
           WhileCalls(Top(Machine).node.body, Top(Machine).result)
    /\ (WhileTested /\ (val.k = "none" \/ ZeroEmptyOrFalse(val))) =>
           pc' = "execute" /\ envs' = envs /\ stack' = Pop(stack) /\ val' = Top(Machine).result
    /\ (WhileIterated /\ ~val.ret) => WhileCalls(Top(Machine).node.condition, val)

\* Whole runs: the loop of the test suite runs its body five times and sums
\* 0..4; a loop whose condition is falsy at once yields None; a binding made
\* in the body is read after the loop.
WhileResults ==
    pc' = "done" =>
        /\ "sum" \in DOMAIN envs'[1].variables =>
               /\ result' = IntV(10)
               /\ envs'[1].variables["count"] = IntV(5)
        /\ envs'[1].source_code = StrV("WHILE 0 DO 1 END") => result' = NoneV
        /\ envs'[1].source_code = StrV("n = 3 WHILE n DO n = n - 1 END") => result' = IntV(0)
        /\ envs'[1].source_code = StrV("i = 0 WHILE i < 2 { i = i + 1 } i") => result' = IntV(2)

\* C12: WHILE evaluates its condition before every iteration in the scope the
\* body writes to; the body runs once per truthy condition; the loop yields
\* the value of the last body execution (None when there was none); bindings
\* made in the body are seen by the next condition and after the loop.
C12_WhileTestsBeforeEachIteration ==
    [][WhileSteps /\ WhileResults]_vars

\* The loop of the test suite after its fifth iteration: count is 5, the
\* condition count < 5 has just come out false, and sum is 10.
C12_Witness ==
    /\ WhileTested
    /\ val = BoolV(FALSE)
    /\ "sum" \in DOMAIN envs[1].variables
    /\ envs[1].variables["sum"] = IntV(10)
    /\ envs[1].variables["count"] = IntV(5)

---------------------------------------------------------------------------
(* After a restart *)

\* The interpret call that MODIFY made has returned into the program that
\* executed the MODIFY: the outermost interpret call is the only one under
\* way, and the lexer's tokens, those of the source interpreted last, are not
\* the tokens of the program it is executing.
RestartReturned ==
    /\ pc = "execute"
    /\ Len(stack) >= 2
    /\ Cardinality({i \in 1..Len(stack) : stack[i].k = "interpret"}) = 1
    /\ stack[2].k = "PROGRAM"
    /\ stack[2].node # Parse(lexer.tokens).node

\* C13: once a MODIFY with target source has executed, the program that
\* executed it is abandoned: it makes no further _execute call (no statement
\* after the MODIFY runs, in its block, in the enclosing call or at top level)
\* and the result of the interpret call is the result of the restarted
\* program.
C13_RestartAbandonsProgram ==
    /\ RestartReturned => Top(Machine).k # "exec"
    /\ (pc = "done" /\ envs[1].source_code = StrV("1 + 1")) => result = IntV(2)

---------------------------------------------------------------------------
(* Blocks without their closing token *)

HasToken(tokens, type) == \E i \in 1..Len(tokens) : tokens[i].type = type

HasKeywordToken(tokens, words) ==
    \E i \in 1..Len(tokens) : tokens[i].type = "KEYWORD" /\ tokens[i].value \in words

\* A { with no } anywhere; or a DEFINE, IF or WHILE in a source with no brace
\* and no END anywhere, so that its body is a keyword-terminated block that
\* nothing closes.
UnclosedBlock(tokens) ==
    \/ HasToken(tokens, "LBRACE") /\ ~HasToken(tokens, "RBRACE")
    \/ /\ HasKeywordToken(tokens, {"DEFINE", "IF", "WHILE"})
       /\ ~HasKeywordToken(tokens, {"END"})
       /\ ~HasToken(tokens, "LBRACE")

\* C14: parsing a block whose closing token is missing, } for a block opened
\* by { and END for the keyword-terminated body of DEFINE, IF or WHILE, fails
\* with a structural error; the parser returns no Program for it.
C14_UnclosedBlockFails ==
    [][(pc = "parse" /\ UnclosedBlock(lexer.tokens)) =>
           (pc' = "error" /\ error'.kind = "SyntaxError")]_vars

---------------------------------------------------------------------------
(* Keywords and identifiers *)

\* A character that can continue an identifier: [A-Za-z0-9_].
ContinuesIdentifier(c) == IsAlnum(c) \/ c = "_"

\* The lexer has just appended a token of this type.
Emitted(type) ==
    /\ Len(lexer'.tokens) = Len(lexer.tokens) + 1
    /\ lexer'.tokens[Len(lexer'.tokens)].type = type

\* C15: a KEYWORD token is emitted only for a whole word: never when the
\* keyword's letters are followed at once by a letter, a digit or _, in which
\* case the whole word is one IDENTIFIER token.
C15_KeywordsAreWholeWords ==
    [][Emitted("KEYWORD") => ~ContinuesIdentifier(Peek(lexer', 0))]_vars

---------------------------------------------------------------------------
(* Sessions: several interpret calls on one interpreter *)

\* Lines typed at the prompt: bindings, reads, a rebinding, a function that
\* reads a global, a binding followed by an unresolved name, by a character
\* the lexer rejects, and by a token the parser rejects.
SessionPrograms ==
    { "x = 1",
      "x = 5",
      "x",
      "DEFINE f() RETURN x END",
      "f()",
      "y = x + 1 z",
      "w = 3 @",
      "w = 3 )" }

\* The loop of the prompt: once a call has returned or raised, the next line
\* goes to interpret on the same interpreter.
InterpretSession ==
    /\ pc \in {"idle", "done", "error"}
    /\ \E source \in SessionPrograms :
          Becomes(StartInterpret([Machine EXCEPT !.stack = <<[k |-> "driver"]>>,
                                                !.error = NoError],
                                 StrV(source)))
    /\ reference' = NoneNode

NextSession ==
    \/ InterpretSession
    \/ LexEOF
    \/ LexKeyword
    \/ LexNumber
    \/ LexIdentifier
    \/ LexOperator
    \/ LexUnknown
    \/ ParseTokens
    \/ Program
    \/ Block
    \/ Literal
    \/ Identifier
    \/ Assign
    \/ BinaryOperation
    \/ FunctionCall
    \/ FunctionReturn
    \/ DefineFunction
    \/ ReturnStatement
    \/ InterpretReturn

SpecSession == Init /\ [][NextSession]_vars

\* The variable and function bindings of the global scope are the same after
\* the step.
GlobalBindingsUnchanged ==
    /\ envs'[1].variables = envs[1].variables
    /\ envs'[1].functions = envs[1].functions

\* No step removes a global binding, and a global binding changes only when
\* an assignment to that name, or a DEFINE of that name, completes in the
\* global scope.
GlobalBindingsKept ==
    /\ \A name \in DOMAIN envs[1].variables :
          /\ name \in DOMAIN envs'[1].variables
          /\ envs'[1].variables[name] # envs[1].variables[name] =>
                 /\ pc = "execute"
                 /\ Top(Machine).k = "ASSIGN"
                 /\ Top(Machine).env = 1
                 /\ Top(Machine).node.name = name
    /\ \A name \in DOMAIN envs[1].functions :
          /\ name \in DOMAIN envs'[1].functions
          /\ envs'[1].functions[name] # envs[1].functions[name] =>
                 /\ Executing({"DEFINE"})
                 /\ Top(Machine).env = 1
                 /\ Top(Machine).node.name = name

\* A new call starts with the bindings the earlier calls left.
NewCallSeesBindings ==
    (pc \in {"idle", "done", "error"} /\ pc' = "tokenize") => GlobalBindingsUnchanged

\* The step that raises leaves the bindings as the statements before it made
\* them; no step of the lexer or of the parser touches them.
ErrorsKeepBindings ==
    /\ pc' = "error" => GlobalBindingsUnchanged
    /\ pc \in {"tokenize", "skip_comment", "read_string", "parse"} => GlobalBindingsUnchanged

\* `y = x + 1 z` with x bound and z unbound: the call raises NameError and y
\* stays bound.
AbortedCallKeepsEarlierStatements ==
    (pc' = "error" /\ error'.kind = "NameError"
        /\ envs[1].source_code = StrV("y = x + 1 z")
        /\ "x" \in DOMAIN envs[1].variables) =>
        /\ "y" \in DOMAIN envs'[1].variables
        /\ envs'[1].variables["y"].n = envs'[1].variables["x"].n + 1

\* C16: over any sequence of interpret calls on one interpreter the global
\* scope is never reset or rolled back: bindings made at top level by earlier
\* calls are visible to later calls, and a call that aborts keeps the bindings
\* of the statements that ran before the error (none for a lexical or a parse
\* error).
C16_GlobalScopePersists ==
    [][/\ GlobalBindingsKept
       /\ NewCallSeesBindings
       /\ ErrorsKeepBindings
       /\ AbortedCallKeepsEarlierStatements]_vars

\* f() returns 5: f was defined by one call, x rebound to 5 by another, and y
\* is still bound by the call that aborted on z when x was 1.
C16_Witness ==
    /\ pc = "done"
    /\ envs[1].source_code = StrV("f()")
    /\ result = IntV(5)
    /\ "y" \in DOMAIN envs[1].variables
    /\ envs[1].variables["y"] = IntV(2)
    /\ "w" \notin DOMAIN envs[1].variables

==========================================================================
